---- MODULE Spec2Model ----
(***************************************************************************)
(* Model of src-tauri/src/wallpaper_engine.rs: render_wallpaper builds a   *)
(* pixmap from a background image, darkens it with an overlay, stacks up   *)
(* to four cards on it (render_cards) and encodes the result as PNG.       *)
(*                                                                         *)
(* Representation.                                                         *)
(*  - A string is the sequence of its Unicode code points; String::len is  *)
(*    the number of bytes of its UTF-8 encoding (StrLen).                  *)
(*  - A pixel is <<r, g, b, a>>, 0..255 each.  A pixel buffer is kept      *)
(*    run-length encoded in row-major order: a sequence of runs            *)
(*    [n |-> count, px |-> pixel]; its pixel count is the sum of the n.    *)
(*  - f32 geometry is modelled by integers: every coordinate of the model  *)
(*    is an integer of magnitude below 2^24, which f32 represents exactly. *)
(*  - The shapes rasterised onto the pixmap are recorded, in order, in     *)
(*    ops, together with the copy, overlay and encode steps.               *)
(***************************************************************************)
EXTENDS Integers, Sequences, FiniteSets

VARIABLES
    pc,          \* position in render_wallpaper
    background,  \* what image::open yields for background_path
    options,     \* the RenderOptions passed in
    width,       \* background.dimensions().0
    height,      \* background.dimensions().1
    pixmap,      \* the tiny-skia Pixmap: [width, height, pixels]
    start_x,     \* render_cards: left edge of every card
    current_y,   \* render_cards: running stacking position
    idx,         \* render_cards: position of the iterator in options.cards
    measured,    \* indices of the cards calculate_card_height was called for
    boxes,       \* the layout box of every card handled so far
    ops,         \* operations applied to the pixmap, in order
    result       \* the value render_wallpaper returned

vars == <<pc, background, options, width, height, pixmap, start_x, current_y,
          idx, measured, boxes, ops, result>>

-----------------------------------------------------------------------------
(* Bounds of the model *)

MaxCards == 5

MaxContentLen == 31

(* Program constants *)

MaxDrawn == 4

OuterMargin == 32

card_padding == 16

card_margin == 12

corner_radius == 16

TitleHeight == 24

LineHeight == 20

CharsPerLine == 30

OverlayAlpha == 50

PinRadius == 6

PinInset == 12

StrokeWidth == 1

MaxRowWidth == 536870911

None == [tag |-> "None"]

Some(v) == [tag |-> "Some", val |-> v]

-----------------------------------------------------------------------------
(* Helpers *)

Min(a, b) == IF a <= b THEN a ELSE b

Max(a, b) == IF a >= b THEN a ELSE b

RECURSIVE SumSeq(_)
SumSeq(s) == IF s = <<>> THEN 0 ELSE Head(s) + SumSeq(Tail(s))

\* char::len_utf8: the number of bytes of one code point in UTF-8
Utf8Len(c) ==
    IF c < 128 THEN 1
    ELSE IF c < 2048 THEN 2
    ELSE IF c < 65536 THEN 3
    ELSE 4

\* String::len: the length of the string in bytes
StrLen(s) == SumSeq([i \in 1..Len(s) |-> Utf8Len(s[i])])

\* the number of characters of the string (s.chars().count())
CharCount(s) == Len(s)

Digits(n) == [i \in 1..n |-> 48 + (i % 10)]

Repeat(c, n) == [i \in 1..n |-> c]

-----------------------------------------------------------------------------
(* Inputs *)

Memo == "Memo"

Task == "Task"

WallpaperCard(t, c, k, p) ==
    [title |-> t, content |-> c, card_type |-> k, is_pinned |-> p]

\* the cards a request is made of
CardSet ==
    { WallpaperCard(<<78, 111, 116, 101>>, Digits(29), Memo, FALSE),
      WallpaperCard(<<>>, <<>>, Task, TRUE),
      \* U+5907, three bytes in UTF-8
      WallpaperCard(<<22791, 22791>>, Repeat(22791, 11), Memo, TRUE),
      WallpaperCard(<<84, 111, 100, 111>>, Digits(MaxContentLen), Task, FALSE) }

\* the cards that come after the fourth of a list
ExtraSet == { c \in CardSet : c.card_type = "Memo" }

\* every list of up to four cards, and every list of four cards followed by
\* extra ones, up to MaxCards cards in all
CardLists ==
    UNION { [1..n -> CardSet] : n \in 0..(IF MaxCards < 4 THEN MaxCards ELSE 4) }
    \cup { front \o extra :
              front \in [1..4 -> CardSet],
              extra \in UNION { [1..m -> ExtraSet] : m \in 1..(MaxCards - 4) } }

CardPosition == {"BottomRight", "BottomLeft", "TopRight", "TopLeft"}

\* card_opacity is kept in hundredths: 85 stands for 0.85
RenderOptions ==
    { [cards |-> cs, position |-> p, card_width |-> s.w, card_opacity |-> s.o,
       blur_background |-> s.b, is_dark_mode |-> s.d] :
        cs \in CardLists, p \in CardPosition,
        s \in { [w |-> 280, o |-> 85, b |-> FALSE, d |-> TRUE],
                [w |-> 120, o |-> 100, b |-> TRUE, d |-> FALSE] } }

Image(w, h, runs) == [ok |-> TRUE, width |-> w, height |-> h, pixels |-> runs]

\* what image::open can yield: an error, or a decoded image
Backgrounds ==
    { [ok |-> FALSE],
      Image(800, 600, << [n |-> 480000, px |-> <<255, 255, 255, 255>>] >>),
      Image(200, 100, << [n |-> 10000, px |-> <<200, 100, 50, 255>>],
                         [n |-> 10000, px |-> <<10, 20, 30, 128>>] >>),
      Image(2, 1, << [n |-> 1, px |-> <<0, 0, 0, 255>>],
                     [n |-> 1, px |-> <<255, 0, 0, 128>>] >>),
      Image(0, 0, << >>) }

PixelCount(runs) == SumSeq([i \in 1..Len(runs) |-> runs[i].n])

-----------------------------------------------------------------------------
(* tiny-skia and image calls, as the code uses them *)

\* Pixmap::new: None for a zero-sized or too wide pixmap, else transparent black
PixmapNew(w, h) ==
    IF w = 0 \/ h = 0 \/ w > MaxRowWidth
    THEN None
    ELSE Some([width |-> w, height |-> h,
               pixels |-> << [n |-> w * h, px |-> <<0, 0, 0, 0>>] >>])

\* PremultipliedColorU8::from_rgba: None unless every colour channel <= alpha
from_rgba(r, g, b, a) ==
    IF r <= a /\ g <= a /\ b <= a THEN Some(<<r, g, b, a>>) ELSE None

\* Color::from_rgba8(r, g, b, a), premultiplied and stored in 8 bits
Premultiply(c) ==
    << (c[1] * c[4] + 127) \div 255, (c[2] * c[4] + 127) \div 255,
       (c[3] * c[4] + 127) \div 255, c[4] >>

\* the low-precision pipeline's division by 255
div255(v) == (v + 255) \div 256

\* source-over blend of a premultiplied colour s onto the pixel d
SourceOver(s, d) ==
    [i \in 1..4 |-> s[i] + div255(d[i] * (255 - s[4]))]

fill_rect_Replace(pm, color) ==
    [pm EXCEPT !.pixels =
        [i \in 1..Len(pm.pixels) |->
            [pm.pixels[i] EXCEPT !.px = Premultiply(color)]]]

\* Pixmap::fill_rect over the whole pixmap
fill_rect(pm, color) ==
    [pm EXCEPT !.pixels =
        [i \in 1..Len(pm.pixels) |->
            [pm.pixels[i] EXCEPT !.px = SourceOver(Premultiply(color), @)]]]

\* PathBuilder::finish: a path unless it is empty, a lone move_to, or has a
\* coordinate that is not finite (every integer of the model is finite)
IsFinite(v) == v \in Int

finish(points) ==
    IF Len(points) <= 1 THEN None
    ELSE IF \A i \in 1..Len(points) : IsFinite(points[i][1]) /\ IsFinite(points[i][2])
         THEN Some(points)
         ELSE None

\* the points of the rounded rectangle path, in the order they are pushed
RoundedRectPath(x, y, w, h, radius) ==
    << <<x + radius, y>>,
       <<x + w - radius, y>>,
       <<x + w, y>>, <<x + w, y + radius>>,
       <<x + w, y + h - radius>>,
       <<x + w, y + h>>, <<x + w - radius, y + h>>,
       <<x + radius, y + h>>,
       <<x, y + h>>, <<x, y + h - radius>>,
       <<x, y + radius>>,
       <<x, y>>, <<x + radius, y>> >>

\* push_circle: the oval inscribed in the square around (cx, cy)
CirclePath(cx, cy, radius) ==
    << <<cx + radius, cy>>, <<cx, cy + radius>>,
       <<cx - radius, cy>>, <<cx, cy - radius>>, <<cx + radius, cy>> >>

-----------------------------------------------------------------------------
(* The drawing functions: each returns the operations log with the shape    *)
(* appended, or unchanged when no path could be built.                      *)

draw_rounded_rect(log, x, y, w, h, radius, color) ==
    IF finish(RoundedRectPath(x, y, w, h, radius)).tag = "Some"
    THEN Append(log, [op |-> "fill", x |-> x, y |-> y, width |-> w, height |-> h,
                      radius |-> radius, color |-> color])
    ELSE log

draw_rounded_rect_stroke(log, x, y, w, h, radius, color, stroke_width) ==
    IF finish(RoundedRectPath(x, y, w, h, radius)).tag = "Some"
    THEN Append(log, [op |-> "stroke", x |-> x, y |-> y, width |-> w, height |-> h,
                      radius |-> radius, color |-> color,
                      stroke_width |-> stroke_width])
    ELSE log

draw_circle(log, cx, cy, radius, color) ==
    IF finish(CirclePath(cx, cy, radius)).tag = "Some"
    THEN Append(log, [op |-> "circle", cx |-> cx, cy |-> cy, radius |-> radius,
                      color |-> color])
    ELSE log

-----------------------------------------------------------------------------
(* render_cards and its helpers *)

calculate_card_height(card, w, padding) ==
    LET title_height  == IF Len(card.title) = 0 THEN 0 ELSE TitleHeight
        content_lines == Max((StrLen(card.content) + CharsPerLine - 1) \div CharsPerLine, 1)
        content_height == content_lines * LineHeight
    IN  title_height + content_height + padding * 2

IsBottom(position) == position \in {"BottomRight", "BottomLeft"}

StartX(position, w, card_width) ==
    IF position \in {"BottomRight", "TopRight"}
    THEN w - card_width - OuterMargin
    ELSE OuterMargin

StartY_NoMargin(position, h) ==
    IF IsBottom(position) THEN h ELSE 0

StartY(position, h) ==
    IF IsBottom(position) THEN h - OuterMargin ELSE OuterMargin

NextY_NoMargin(position, y, card_height) ==
    IF IsBottom(position)
    THEN y - (card_height + card_margin)
    ELSE y + card_height

\* current_y after a card of the given height
NextY(position, y, card_height) ==
    IF IsBottom(position)
    THEN y - (card_height + card_margin)
    ELSE y + (card_height + card_margin)

CardY_NoMargin(position, y, card_height) ==
    IF IsBottom(position)
    THEN NextY(position, y, card_height)
    ELSE y

\* the top edge of a card of the given height, current_y being y before it
CardY(position, y, card_height) ==
    IF IsBottom(position)
    THEN NextY(position, y, card_height) + card_margin
    ELSE y

\* `as u8` of a non-negative value: saturating
AsU8(v) == IF v > 255 THEN 255 ELSE IF v < 0 THEN 0 ELSE v

FillColor(opts) ==
    IF opts.is_dark_mode
    THEN <<255, 255, 255, AsU8((opts.card_opacity * 40) \div 100)>>
    ELSE <<0, 0, 0, AsU8((opts.card_opacity * 30) \div 100)>>

StrokeColor(opts) ==
    IF opts.is_dark_mode THEN <<255, 255, 255, 50>> ELSE <<0, 0, 0, 20>>

PinColor_Swapped(card_type) ==
    IF card_type = Memo THEN <<96, 165, 250, 255>> ELSE <<251, 191, 36, 255>>

PinColor(card_type) ==
    IF card_type = Memo THEN <<251, 191, 36, 255>> ELSE <<96, 165, 250, 255>>

\* the pin indicator of one card
DrawPin(log, card, x, y, card_width) ==
    IF card.is_pinned
    THEN draw_circle(log, x + card_width - PinInset, y + PinInset, PinRadius,
                     PinColor(card.card_type))
    ELSE log

DrawCard_StrokeFirst(log, card, opts, x, y, card_height) ==
    DrawPin(
        draw_rounded_rect(
            draw_rounded_rect_stroke(log, x, y, opts.card_width, card_height,
                                     corner_radius, StrokeColor(opts), StrokeWidth),
            x, y, opts.card_width, card_height, corner_radius, FillColor(opts)),
        card, x, y, opts.card_width)

\* the three draws of one card, in the order of the loop body
DrawCard(log, card, opts, x, y, card_height) ==
    DrawPin(
        draw_rounded_rect_stroke(
            draw_rounded_rect(log, x, y, opts.card_width, card_height,
                              corner_radius, FillColor(opts)),
            x, y, opts.card_width, card_height, corner_radius,
            StrokeColor(opts), StrokeWidth),
        card, x, y, opts.card_width)

Taken_All(cards) == Len(cards)

\* the cards the loop visits: options.cards.iter().take(4)
Taken(cards) == Min(Len(cards), MaxDrawn)

-----------------------------------------------------------------------------
(* render_wallpaper *)

Err(msg) == [kind |-> "Err", msg |-> msg]

Ok(png) == [kind |-> "Ok", png |-> png]

NoResult == [kind |-> "None"]

Init ==
    /\ pc = "start"
    /\ background \in Backgrounds
    /\ options \in RenderOptions
    /\ width = 0
    /\ height = 0
    /\ pixmap = None
    /\ start_x = 0
    /\ current_y = 0
    /\ idx = 0
    /\ measured = <<>>
    /\ boxes = <<>>
    /\ ops = <<>>
    /\ result = NoResult

\* image::open(background_path) and background.dimensions()
LoadBackground ==
    /\ pc = "start"
    /\ IF background.ok
       THEN /\ pc' = "loaded"
            /\ width' = background.width
            /\ height' = background.height
            /\ UNCHANGED result
       ELSE /\ pc' = "done"
            /\ result' = Err("Failed to load background")
            /\ UNCHANGED <<width, height>>
    /\ UNCHANGED <<background, options, pixmap, start_x, current_y, idx,
                   measured, boxes, ops>>

\* Pixmap::new(width, height).ok_or(..)?
CreatePixmap ==
    /\ pc = "loaded"
    /\ LET pm == PixmapNew(width, height)
       IN IF pm.tag = "Some"
          THEN /\ pc' = "created"
               /\ pixmap' = pm.val
               /\ UNCHANGED result
          ELSE /\ pc' = "done"
               /\ result' = Err("Failed to create pixmap")
               /\ UNCHANGED pixmap
    /\ UNCHANGED <<background, options, width, height, start_x, current_y, idx,
                   measured, boxes, ops>>

\* to_rgba8() and the copy loop: from_rgba(..).unwrap() on every pixel
CopyPixel(px) == from_rgba(px[1], px[2], px[3], px[4])

CopyBackground ==
    /\ pc = "created"
    /\ LET src == background.pixels
       IN IF \A i \in 1..Len(src) : CopyPixel(src[i].px).tag = "Some"
          THEN /\ pc' = "copied"
               /\ pixmap' = [pixmap EXCEPT !.pixels =
                     [i \in 1..Len(src) |->
                         [n |-> src[i].n, px |-> CopyPixel(src[i].px).val]]]
               /\ ops' = Append(ops, [op |-> "copy"])
          ELSE /\ pc' = "panicked"
               /\ UNCHANGED <<pixmap, ops>>
    /\ UNCHANGED <<background, options, width, height, start_x, current_y, idx,
                   measured, boxes, result>>

\* the darkening overlay
OverlayColor == <<0, 0, 0, OverlayAlpha>>

ApplyOverlay ==
    /\ pc = "copied"
    /\ pc' = "overlaid"
    /\ pixmap' = fill_rect(pixmap, OverlayColor)
    /\ ops' = Append(ops, [op |-> "overlay"])
    /\ UNCHANGED <<background, options, width, height, start_x, current_y, idx,
                   measured, boxes, result>>

\* if !options.cards.is_empty(): enter render_cards
EnterRenderCards ==
    /\ pc = "overlaid"
    /\ Len(options.cards) > 0
    /\ pc' = "cards"
    /\ start_x' = StartX(options.position, width, options.card_width)
    /\ current_y' = StartY(options.position, height)
    /\ idx' = 1
    /\ UNCHANGED <<background, options, width, height, pixmap, measured, boxes,
                   ops, result>>

\* one iteration of the loop over options.cards.iter().take(4)
RenderCard ==
    /\ pc = "cards"
    /\ idx <= Taken(options.cards)
    /\ LET card        == options.cards[idx]
           card_height == calculate_card_height(card, options.card_width, card_padding)
           card_y      == CardY(options.position, current_y, card_height)
       IN /\ measured' = Append(measured, idx)
          /\ current_y' = NextY(options.position, current_y, card_height)
          /\ boxes' = Append(boxes, [x |-> start_x, y |-> card_y,
                                     width |-> options.card_width,
                                     height |-> card_height])
          /\ ops' = DrawCard(ops, card, options, start_x, card_y, card_height)
    /\ idx' = idx + 1
    /\ UNCHANGED <<pc, background, options, width, height, pixmap, start_x, result>>

\* pixmap.encode_png(): the bytes of the whole image, or an encoder error
EncodePng ==
    /\ \/ pc = "overlaid" /\ Len(options.cards) = 0
       \/ pc = "cards" /\ idx > Taken(options.cards)
    /\ pc' = "done"
    /\ ops' = Append(ops, [op |-> "encode"])
    /\ \E encoded \in BOOLEAN :
          result' = IF encoded
                    THEN Ok([width |-> pixmap.width, height |-> pixmap.height,
                             pixels |-> pixmap.pixels, shapes |-> ops])
                    ELSE Err("Failed to encode PNG")
    /\ UNCHANGED <<background, options, width, height, pixmap, start_x, current_y,
                   idx, measured, boxes>>

Next ==
    \/ LoadBackground
    \/ CreatePixmap
    \/ CopyBackground
    \/ ApplyOverlay
    \/ EnterRenderCards
    \/ RenderCard
    \/ EncodePng

Spec == Init /\ [][Next]_vars

-----------------------------------------------------------------------------
(* Vocabulary of the properties *)

N == Len(options.cards)

W == background.width

H == background.height

Shapes(kind) == SelectSeq(ops, LAMBDA o : o.op = kind)

OpNames == [i \in 1..Len(ops) |-> ops[i].op]

Encoded == pc = "done" /\ Len(ops) > 0 /\ ops[Len(ops)].op = "encode"

Overlaid == Len(ops) >= 2 /\ ops[2].op = "overlay"

\* render_cards has returned, or was not called because there is no card
CardsDone ==
    \/ Encoded
    \/ pc = "cards" /\ idx > Min(N, 4)

\* h1 + ... + hk of the cards laid out so far
SumHeights(k) == SumSeq([i \in 1..k |-> boxes[i].height])

IsPrefix(s, t) == Len(s) <= Len(t) /\ \A i \in 1..Len(s) : s[i] = t[i]

-----------------------------------------------------------------------------
\* C1: render_cards draws exactly min(N, 4) cards, the first min(N, 4) of the
\* input in input order; later cards are neither measured nor drawn, and with
\* no card nothing is drawn after the overlay.
C1_FirstFourDrawn ==
    /\ \A i \in 1..Len(measured) : measured[i] = i /\ i <= 4 /\ i <= N
    /\ Len(Shapes("fill")) = Len(measured)
    /\ \A i \in 1..Len(Shapes("fill")) :
          /\ Shapes("fill")[i].height =
                calculate_card_height(options.cards[i], options.card_width, 16)
          /\ Shapes("fill")[i].y = boxes[i].y
    /\ CardsDone =>
          /\ Len(Shapes("fill")) = Min(N, 4)
          /\ Len(measured) = Min(N, 4)
    /\ (Encoded /\ N = 0) => OpNames = <<"copy", "overlay", "encode">>

C1_Witness ==
    /\ Encoded
    /\ result.kind = "Ok"
    /\ N = 5
    /\ Len(Shapes("fill")) = 4
    /\ options.cards[5] # options.cards[4]

\* the card of the 800x600 scenario: a Memo titled "Note" with the 29
\* characters "12345678901234567890123456789", one content line
ScenarioCard ==
    [title |-> <<78, 111, 116, 101>>,
     content |-> [i \in 1..29 |-> 48 + (i % 10)],
     card_type |-> "Memo", is_pinned |-> FALSE]

\* C2: bottom anchors stack upward: the k-th card's top edge is at
\* H - 32 - (h1 + ... + hk) - 12 * (k - 1), the first card's bottom edge is
\* at H - 32, every later card is strictly above the one before it, and the
\* left edge is W - card_width - 32 (BottomRight) or 32 (BottomLeft).
C2_BottomStacking ==
    options.position \in {"BottomRight", "BottomLeft"} =>
        /\ \A k \in 1..Len(boxes) :
              /\ boxes[k].y = H - 32 - SumHeights(k) - 12 * (k - 1)
              /\ boxes[k].x = IF options.position = "BottomRight"
                              THEN W - options.card_width - 32 ELSE 32
              /\ k > 1 => boxes[k].y < boxes[k - 1].y
              /\ Shapes("fill")[k].x = boxes[k].x
              /\ Shapes("fill")[k].y = boxes[k].y
        /\ Len(boxes) >= 1 => boxes[1].y + boxes[1].height = H - 32
        /\ ( /\ Len(boxes) >= 1
             /\ W = 800 /\ H = 600 /\ options.card_width = 280
             /\ options.position = "BottomRight"
             /\ options.cards[1] = ScenarioCard )
           => boxes[1] = [x |-> 488, y |-> 492, width |-> 280, height |-> 76]

C2_Witness ==
    /\ options.position = "BottomRight"
    /\ Len(boxes) = 4
    /\ boxes[1] = [x |-> 488, y |-> 492, width |-> 280, height |-> 76]
    /\ boxes[4].y < boxes[3].y

\* C3: top anchors stack downward: the k-th card's top edge is at
\* 32 + (h1 + ... + h(k-1)) + 12 * (k - 1), top edges increase strictly,
\* consecutive cards are 12 pixels apart, and the left edge is
\* W - card_width - 32 (TopRight) or 32 (TopLeft).
C3_TopStacking ==
    options.position \in {"TopRight", "TopLeft"} =>
        \A k \in 1..Len(boxes) :
            /\ boxes[k].y = 32 + SumHeights(k - 1) + 12 * (k - 1)
            /\ boxes[k].x = IF options.position = "TopRight"
                            THEN W - options.card_width - 32 ELSE 32
            /\ k > 1 => /\ boxes[k].y > boxes[k - 1].y
                        /\ boxes[k].y - (boxes[k - 1].y + boxes[k - 1].height) = 12
            /\ Shapes("fill")[k].x = boxes[k].x
            /\ Shapes("fill")[k].y = boxes[k].y

C3_Witness ==
    /\ options.position = "TopRight"
    /\ Len(boxes) = 4
    /\ boxes[1].y = 32
    /\ boxes[2].height # boxes[3].height
    /\ boxes[4].y = 32 + SumHeights(3) + 36

\* C4: the height of a card is (24 if the title is non-empty, else 0)
\* + max(ceil(n / 30), 1) * 20 + 32, n being the number of characters of the
\* content.
C4_HeightByCharacters ==
    \A k \in 1..Len(boxes) :
        boxes[k].height =
            (IF Len(options.cards[k].title) > 0 THEN 24 ELSE 0)
            + Max((CharCount(options.cards[k].content) + 29) \div 30, 1) * 20
            + 32

\* C5 as stated: the canvas has width x height pixels and every pixel keeps
\* the R, G and B of its source pixel, the overlay changing alpha only.
C5_RgbUnchanged ==
    Overlaid =>
        /\ PixelCount(pixmap.pixels) = W * H
        /\ Len(pixmap.pixels) = Len(background.pixels)
        /\ \A i \in 1..Len(pixmap.pixels) :
              /\ pixmap.pixels[i].n = background.pixels[i].n
              /\ \A c \in 1..3 :
                    pixmap.pixels[i].px[c] = background.pixels[i].px[c]

\* C5 amended: the canvas has width x height pixels and the overlay, applied
\* whatever is_dark_mode, blends black of alpha 50 over every channel: each of
\* R, G, B becomes (c * 205 + 255) div 256 (never larger than c), alpha
\* becomes 50 + (a * 205 + 255) div 256, so an opaque pixel stays opaque.
C5_OverlayBlend ==
    Overlaid =>
        /\ PixelCount(pixmap.pixels) = W * H
        /\ Len(pixmap.pixels) = Len(background.pixels)
        /\ \A i \in 1..Len(pixmap.pixels) :
              LET src == background.pixels[i].px
                  dst == pixmap.pixels[i].px
              IN /\ pixmap.pixels[i].n = background.pixels[i].n
                 /\ \A c \in 1..3 :
                       /\ dst[c] = (src[c] * 205 + 255) \div 256
                       /\ dst[c] <= src[c]
                 /\ dst[4] = 50 + (src[4] * 205 + 255) \div 256
                 /\ src[4] = 255 => dst[4] = 255

C5_Witness ==
    /\ pc = "overlaid"
    /\ ~options.is_dark_mode
    /\ background.pixels[1].px = <<255, 255, 255, 255>>
    /\ pixmap.pixels[1].px = <<205, 205, 205, 255>>
    /\ PixelCount(pixmap.pixels) = 480000

\* C6: whatever the RGBA values of a decoded background, render_wallpaper
\* copies every pixel and ends by returning the PNG or an error: it never
\* ends any other way.
C6_AlwaysReturns ==
    /\ pc # "panicked"
    /\ pc = "done" => result.kind \in {"Ok", "Err"}

\* C7: a pin circle is drawn for a card if and only if the card is pinned;
\* it is RGBA(251,191,36,255) for a Memo and RGBA(96,165,250,255) for a Task,
\* whatever dark_mode, card_opacity and anchor are.
PinOf(k) ==
    { i \in 1..Len(ops) :
        /\ ops[i].op = "circle"
        /\ ops[i].cy = boxes[k].y + 12
        /\ ops[i].cx = boxes[k].x + options.card_width - 12 }

C7_PinIffPinned ==
    /\ \A k \in 1..Len(boxes) :
          /\ PinOf(k) # {} <=> options.cards[k].is_pinned
          /\ \A i \in PinOf(k) :
                ops[i].color = IF options.cards[k].card_type = "Memo"
                               THEN <<251, 191, 36, 255>>
                               ELSE <<96, 165, 250, 255>>
    /\ Len(Shapes("circle")) =
          Cardinality({k \in 1..Len(boxes) : options.cards[k].is_pinned})

C7_Witness ==
    /\ Encoded
    /\ ~options.is_dark_mode
    /\ Len(boxes) = 4
    /\ \E a, b, c, d \in 1..4 :
          /\ options.cards[a].is_pinned /\ options.cards[a].card_type = "Memo"
          /\ options.cards[b].is_pinned /\ options.cards[b].card_type = "Task"
          /\ ~options.cards[c].is_pinned /\ options.cards[c].card_type = "Memo"
          /\ ~options.cards[d].is_pinned /\ options.cards[d].card_type = "Task"
    /\ Len(Shapes("circle")) = 2

\* C9: the canvas operations are, in order: the background copy, the overlay,
\* then for each drawn card in input order its fill, its stroke and, only if
\* it is pinned, its pin circle; encoding happens once, after the last draw.
RECURSIVE ExpectedDraws(_, _)
ExpectedDraws(cards, k) ==
    IF k = 0 THEN <<>>
    ELSE ExpectedDraws(cards, k - 1)
         \o <<"fill", "stroke">>
         \o (IF cards[k].is_pinned THEN <<"circle">> ELSE <<>>)

ExpectedOps ==
    <<"copy", "overlay">> \o ExpectedDraws(options.cards, Min(N, 4)) \o <<"encode">>

C9_OperationOrder ==
    /\ IsPrefix(OpNames, ExpectedOps)
    /\ pc = "cards" =>
          OpNames = <<"copy", "overlay">> \o ExpectedDraws(options.cards, Len(boxes))
    /\ Encoded => OpNames = ExpectedOps
    /\ result.kind = "Ok" =>
          /\ Encoded
          /\ result.png.shapes = SubSeq(ops, 1, Len(ops) - 1)

C9_Witness ==
    /\ result.kind = "Ok"
    /\ Len(boxes) = 3
    /\ options.cards[1].is_pinned
    /\ ~options.cards[2].is_pinned
    /\ OpNames = <<"copy", "overlay", "fill", "stroke", "circle", "fill", "stroke",
                   "fill", "stroke", "circle", "encode">>

\* C10 as stated: whatever the canvas size, anchor, card_width and cards, the
\* box of every drawn card lies within the canvas.
BoxesWithinCanvas ==
    \A k \in 1..Len(boxes) :
        /\ 0 <= boxes[k].x
        /\ boxes[k].x + options.card_width <= W
        /\ 0 <= boxes[k].y
        /\ boxes[k].y + boxes[k].height <= H

C10_BoxesWithinCanvas == BoxesWithinCanvas

\* C10 amended: the boxes of the drawn cards all lie within the canvas if and
\* only if W >= card_width + 32 and H >= 32 + (h1 + ... + hn) + 12 * (n - 1),
\* n being the number of cards drawn; on a smaller canvas they extend past it.
C10_WithinIffCanvasLargeEnough ==
    Len(boxes) >= 1 =>
        ( BoxesWithinCanvas <=>
            /\ W >= options.card_width + 32
            /\ H >= 32 + SumHeights(Len(boxes)) + 12 * (Len(boxes) - 1) )

C10_Witness ==
    /\ CardsDone
    /\ Len(boxes) = 4
    /\ BoxesWithinCanvas
    /\ W = 800

====
